---- MODULE Spec2Model ----
(***************************************************************************)
(* Text-protection and restoration pipeline of the chat-message renderer:  *)
(* placeholder registry, citation normalizer, bold-format fixer, think-tag *)
(* transformer and the orchestrating processMathAndMarkdown.               *)
(*                                                                         *)
(* A text is a sequence of UTF-16 code units.  A code unit is written as a *)
(* one-character string; the few non-ASCII code units the source mentions  *)
(* are written by name: "FWBAR" is U+FF5C, "FWCOLON" U+FF1A, "FWCOMMA"     *)
(* U+FF0C, "FWSTOP" U+3002, "FWLPAREN" U+FF08, "FWRPAREN" U+FF09 and       *)
(* "DIVSIGN" U+00F7.  "BACKTICK" is U+0060.                               *)
(***************************************************************************)
EXTENDS Integers, Sequences, FiniteSets, TLC

VARIABLES
    pc,                     \* the statement the running function is at
    category,               \* the registry category a registry run works on
    parts,                  \* the segments the input text was assembled from
    input,                  \* the argument the entry point was called with
    text,                   \* the working string (local variable text)
    html,                   \* the rendered string (local variable html)
    handed,                 \* the string handed to the Markdown renderer
    outputs,                \* the results of the calls made so far, in order
    normalized,             \* what normalizeTextFragmentLinks returned
    storeBefore,            \* the store as it was when extract was called
    codeBlockExpressions,   \* the five stores of protected regions
    inlineCodeExpressions,
    imageExpressions,
    linkExpressions,
    mathExpressions,
    markedConfigured,       \* module variable markedConfigured
    mermaidRenderScheduled, \* module variable mermaidRenderScheduled
    idleCallbacks,          \* the run callbacks the host holds, not yet run
    renderMermaidDiagrams,  \* window.renderMermaidDiagrams is a function
    requests,               \* the calls of scheduleMermaidRender so far
    attempts,               \* the runs of the callback so far
    invocations,            \* the calls of window.renderMermaidDiagrams
    served                  \* the value of requests when run last ran

stores == <<codeBlockExpressions, inlineCodeExpressions, imageExpressions,
            linkExpressions, mathExpressions>>

scheduler == <<markedConfigured, mermaidRenderScheduled, idleCallbacks,
               renderMermaidDiagrams, requests, attempts, invocations, served>>

vars == <<pc, category, parts, input, text, html, handed, outputs,
          normalized, storeBefore, stores, scheduler>>

(***************************************************************************)
(* Character classes of the regular expressions.                           *)
(***************************************************************************)
Digit == {"0", "1", "2", "3", "4", "5", "6", "7", "8", "9"}

UpperSeq == <<"A", "B", "C", "D", "E", "F", "G", "H", "I", "J", "K", "L", "M",
             "N", "O", "P", "Q", "R", "S", "T", "U", "V", "W", "X", "Y", "Z">>

LowerSeq == <<"a", "b", "c", "d", "e", "f", "g", "h", "i", "j", "k", "l", "m",
             "n", "o", "p", "q", "r", "s", "t", "u", "v", "w", "x", "y", "z">>

Upper == {UpperSeq[n] : n \in 1..Len(UpperSeq)}

Lower == {LowerSeq[n] : n \in 1..Len(LowerSeq)}

\* \s of the regular expressions (the members that occur in the model)
White == {" ", "\n", "\t"}

\* \w, which decides the word boundary \b
WordChar == Digit \cup Upper \cup Lower \cup {"_"}

(***************************************************************************)
(* Sequence helpers.                                                       *)
(***************************************************************************)
Last(s) == s[Len(s)]

Slice(s, a, b) == SubSeq(s, a, b - 1)          \* s.slice(a-1, b-1), 1-based

HasAt(s, i, lit) ==
    /\ i + Len(lit) - 1 <= Len(s)
    /\ \A j \in 1..Len(lit) : s[i + j - 1] = lit[j]

Contains(s, lit) == \E i \in 1..(Len(s) - Len(lit) + 1) : HasAt(s, i, lit)

RECURSIVE Flatten(_)
Flatten(ss) == IF ss = <<>> THEN <<>> ELSE Head(ss) \o Flatten(Tail(ss))

(***************************************************************************)
(* A backtracking matcher with the priorities of the ECMAScript regular    *)
(* expression semantics.  A pattern is a sequence of nodes:                *)
(*   lit   a literal string                                                *)
(*   cls   one character class, repeated min..(many ? unbounded : 1) times, *)
(*         greedy or lazy                                                  *)
(*   la    a lookahead (neg: negative) on the sub-pattern                  *)
(*   grp   a group around a sub-pattern, optional when min = 0, repeated   *)
(*         greedily min or more times when many                            *)
(*   alt   alternatives  a|b|...  , each a pattern, tried in order         *)
(*   bol / eol   ^ and $ under the m flag;  eot   $ without it             *)
(*   wb    the word boundary \b                                            *)
(* Match returns <<>> when the pattern does not match at i, and otherwise  *)
(* <<i, p1, ..., pn>>: the position after each of the n nodes.             *)
(***************************************************************************)
Node(t, s, set, neg, min, many, lazy, sub) ==
    [t |-> t, s |-> s, set |-> set, neg |-> neg, min |-> min, many |-> many,
     lazy |-> lazy, sub |-> sub]

Lit(s) == Node("lit", s, {}, FALSE, 1, FALSE, FALSE, <<>>)
One(set) == Node("cls", <<>>, set, FALSE, 1, FALSE, FALSE, <<>>)
NotOne(set) == Node("cls", <<>>, set, TRUE, 1, FALSE, FALSE, <<>>)
Plus(set) == Node("cls", <<>>, set, FALSE, 1, TRUE, FALSE, <<>>)
Star(set) == Node("cls", <<>>, set, FALSE, 0, TRUE, FALSE, <<>>)
NotPlus(set) == Node("cls", <<>>, set, TRUE, 1, TRUE, FALSE, <<>>)
NotStar(set) == Node("cls", <<>>, set, TRUE, 0, TRUE, FALSE, <<>>)
NotPlusLazy(set) == Node("cls", <<>>, set, TRUE, 1, TRUE, TRUE, <<>>)
NotStarLazy(set) == Node("cls", <<>>, set, TRUE, 0, TRUE, TRUE, <<>>)
Opt(set) == Node("cls", <<>>, set, FALSE, 0, FALSE, FALSE, <<>>)
Ahead(sub) == Node("la", <<>>, {}, FALSE, 1, FALSE, FALSE, sub)
NotAhead(sub) == Node("la", <<>>, {}, TRUE, 1, FALSE, FALSE, sub)
Group(sub) == Node("grp", <<>>, {}, FALSE, 1, FALSE, FALSE, sub)
OptGroup(sub) == Node("grp", <<>>, {}, FALSE, 0, FALSE, FALSE, sub)
Repeat(sub, min) == Node("grp", <<>>, {}, FALSE, min, TRUE, FALSE, sub)
Alt(alts) == Node("alt", <<>>, {}, FALSE, 1, FALSE, FALSE, alts)
PlusLazy(set) == Node("cls", <<>>, set, FALSE, 1, TRUE, TRUE, <<>>)
Bol == Node("bol", <<>>, {}, FALSE, 1, FALSE, FALSE, <<>>)
Eol == Node("eol", <<>>, {}, FALSE, 1, FALSE, FALSE, <<>>)
Eot == Node("eot", <<>>, {}, FALSE, 1, FALSE, FALSE, <<>>)
WordBoundary == Node("wb", <<>>, {}, FALSE, 1, FALSE, FALSE, <<>>)

\* the classes  .  and  [\s\S]  ( [^] )
DotPlusLazy == NotPlusLazy({"\n"})
DotStar == NotStar({"\n"})
DotStarLazy == NotStarLazy({"\n"})
AnyPlusLazy == NotPlusLazy({})
AnyStarLazy == NotStarLazy({})

InClass(nd, c) == (c \in nd.set) # nd.neg

\* the number of characters from i on that are in the class of nd
RunLength(nd, s, i) ==
    LET stops == {j \in i..(Len(s) + 1) : j = Len(s) + 1 \/ ~InClass(nd, s[j])}
    IN  (CHOOSE j \in stops : \A h \in stops : j <= h) - i

IsWord(s, i) == i >= 1 /\ i <= Len(s) /\ s[i] \in WordChar

\* the least element of a set of positions
Min(S) == CHOOSE h \in S : \A g \in S : h <= g

\* r with the position i before it, when r is a match
Prefix(i, r) == IF r = <<>> THEN <<>> ELSE <<i>> \o r

\* the first match in a sequence of match results from index from on, or <<>>
First(results, from) ==
    IF \A j \in from..Len(results) : results[j] = <<>> THEN <<>>
    ELSE results[Min({j \in from..Len(results) : results[j] # <<>>})]

RECURSIVE Match(_, _, _, _)
RECURSIVE TryAlts(_, _, _, _, _)

\* the repetition counts of a class node in the order the matcher tries them,
\* from the count first to the count last (upwards when lazy, downwards when
\* greedy): the earliest one after which the rest of the pattern matches
TryCounts(nodes, k, s, i, first, last) ==
    Prefix(i, First([e \in 1..((IF nodes[k].lazy THEN last - first
                                 ELSE first - last) + 1) |->
                        Match(nodes, k + 1, s,
                              i + (IF nodes[k].lazy THEN first + e - 1
                                   ELSE first - e + 1))], 1))

\* a class node that can repeat up to top times
TryClass(nodes, k, s, i, top) ==
    IF top < nodes[k].min THEN <<>>
    ELSE IF nodes[k].lazy THEN TryCounts(nodes, k, s, i, nodes[k].min, top)
    ELSE TryCounts(nodes, k, s, i, top, nodes[k].min)

\* the alternatives of an alt node in order, from alternative a on
TryAlts(nodes, k, s, i, a) ==
    IF a > Len(nodes[k].sub) THEN <<>>
    ELSE LET alt == nodes[k].sub[a]
             r == Match(alt \o SubSeq(nodes, k + 1, Len(nodes)), 1, s, i)
         IN  IF r # <<>> THEN <<i>> \o SubSeq(r, Len(alt) + 1, Len(r))
             ELSE TryAlts(nodes, k, s, i, a + 1)

\* a group node: its sub-pattern, then (when it repeats) the group again, then
\* the rest; r is the match of that, holding inner positions of the group
Regroup(nodes, k, s, i, inner, r) ==
    IF r # <<>> THEN <<i>> \o SubSeq(r, inner + 1, Len(r))
    ELSE IF nodes[k].min = 0 THEN Prefix(i, Match(nodes, k + 1, s, i))
    ELSE <<>>

TryGroup(nodes, k, s, i, again) ==
    Regroup(nodes, k, s, i, Len(nodes[k].sub) + Len(again),
            Match(nodes[k].sub \o again \o SubSeq(nodes, k + 1, Len(nodes)),
                  1, s, i))

\* the assertions, which consume nothing
Holds(nd, s, i) ==
    CASE nd.t = "la" -> (Match(nd.sub, 1, s, i) # <<>>) # nd.neg
      [] nd.t = "bol" -> i = 1 \/ s[i - 1] = "\n"
      [] nd.t = "eol" -> i = Len(s) + 1 \/ s[i] = "\n"
      [] nd.t = "eot" -> i = Len(s) + 1
      [] nd.t = "wb" -> IsWord(s, i - 1) # IsWord(s, i)

Match(nodes, k, s, i) ==
    IF k > Len(nodes) THEN <<i>>
    ELSE
    CASE nodes[k].t = "lit" ->
            IF HasAt(s, i, nodes[k].s)
            THEN Prefix(i, Match(nodes, k + 1, s, i + Len(nodes[k].s)))
            ELSE <<>>
      [] nodes[k].t = "cls" ->
            TryClass(nodes, k, s, i,
                     IF nodes[k].many THEN RunLength(nodes[k], s, i)
                     ELSE IF i <= Len(s) /\ InClass(nodes[k], s[i]) THEN 1
                     ELSE 0)
      [] nodes[k].t = "grp" ->
            TryGroup(nodes, k, s, i,
                     IF nodes[k].many
                     THEN <<[nodes[k] EXCEPT !.min = IF nodes[k].min > 0
                                                     THEN nodes[k].min - 1
                                                     ELSE 0]>>
                     ELSE <<>>)
      [] nodes[k].t = "alt" -> TryAlts(nodes, k, s, i, 1)
      [] OTHER ->
            IF Holds(nodes[k], s, i) THEN Prefix(i, Match(nodes, k + 1, s, i))
            ELSE <<>>

\* the match at each position of s, <<>> where there is none
MatchesAt(nodes, s) == [j \in 1..(Len(s) + 1) |-> Match(nodes, 1, s, j)]

\* The matches of a global (g flag) search from position i on, left to right
\* and not overlapping; after an empty match the search moves on by one.
RECURSIVE FindFrom(_, _)
Found(all, m) ==
    IF m = <<>> THEN <<>>
    ELSE <<m>> \o FindFrom(all, IF Last(m) = m[1] THEN m[1] + 1 ELSE Last(m))

FindFrom(all, i) == Found(all, First(all, i))

FindAll(nodes, s, i) == FindFrom(MatchesAt(nodes, s), i)

\* s with each edit <<from, to, replacement>> applied; the edits are in order
RECURSIVE Splice(_, _, _)
Splice(s, edits, from) ==
    IF edits = <<>> THEN SubSeq(s, from, Len(s))
    ELSE LET e == Head(edits)
         IN  Slice(s, from, e[1]) \o e[3] \o Splice(s, Tail(edits), e[2])

\* String.prototype.replace(regex /g, replacement): Repl(s, m, j) is the
\* replacement of the j-th match, whose node positions are m
Replaced(s, ms, Repl(_, _, _)) ==
    Splice(s, [j \in 1..Len(ms) |->
                  <<ms[j][1], Last(ms[j]), Repl(s, ms[j], j)>>], 1)

\* the string is a value before it is searched: t is s
ReplaceAll(nodes, s, Repl(_, _, _)) ==
    CHOOSE r \in {Replaced(t, FindAll(nodes, t, 1), Repl) : t \in {s}} : TRUE

\* the text node number k of a match consumed ($1 ... of a capture group)
Cap(s, m, k) == Slice(s, m[k], m[k + 1])

(***************************************************************************)
(* Literals of the source.                                                 *)
(***************************************************************************)
PERCENTS == <<"%", "%">>
STARS == <<"*", "*">>
FENCE == <<"BACKTICK", "BACKTICK", "BACKTICK">>
TICK == <<"BACKTICK">>
CODE_BLOCK == <<"C", "O", "D", "E", "_", "B", "L", "O", "C", "K", "_">>
INLINE_CODE == <<"I", "N", "L", "I", "N", "E", "_", "C", "O", "D", "E", "_">>
LINK_EXPRESSION == <<"L", "I", "N", "K", "_", "E", "X", "P", "R", "E", "S",
                     "S", "I", "O", "N", "_">>
IMAGE_EXPRESSION == <<"I", "M", "A", "G", "E", "_", "E", "X", "P", "R", "E",
                      "S", "S", "I", "O", "N", "_">>
MATH_EXPRESSION == <<"M", "A", "T", "H", "_", "E", "X", "P", "R", "E", "S",
                     "S", "I", "O", "N", "_">>
CITE_COLON == <<"c", "i", "t", "e", ":">>
UNDEFINED == <<"u", "n", "d", "e", "f", "i", "n", "e", "d">>

(***************************************************************************)
(* Numbers in template literals and as property keys.                      *)
(***************************************************************************)
DigitSeq == <<"0", "1", "2", "3", "4", "5", "6", "7", "8", "9">>

DigitVal(c) == (CHOOSE v \in 1..Len(DigitSeq) : DigitSeq[v] = c) - 1

\* ${n} in a template literal: the decimal digits of n
RECURSIVE ToDigits(_)
ToDigits(n) ==
    IF n < Len(DigitSeq) THEN <<DigitSeq[n + 1]>>
    ELSE ToDigits(n \div Len(DigitSeq)) \o <<DigitSeq[(n % Len(DigitSeq)) + 1]>>

RECURSIVE FromDigits(_)
FromDigits(ds) ==
    IF ds = <<>> THEN 0
    ELSE FromDigits(SubSeq(ds, 1, Len(ds) - 1)) * Len(DigitSeq)
         + DigitVal(Last(ds))

\* store[index], index being the digits a token held: an array holds an
\* element under a key only when the key is the canonical decimal form of an
\* index below its length; any other key reads undefined, which replace()
\* turns into the text "undefined"
Lookup(store, ds) ==
    IF ToDigits(FromDigits(ds)) = ds /\ FromDigits(ds) < Len(store)
    THEN store[FromDigits(ds) + 1]
    ELSE UNDEFINED

\* the template literal %%<CATEGORY>_${n}%%
Placeholder(name, n) == PERCENTS \o name \o ToDigits(n) \o PERCENTS

\* /%%<CATEGORY>_(\d+)%%/g
TokenRegex(name) == <<Lit(PERCENTS \o name), Plus(Digit), Lit(PERCENTS)>>

\* the matched texts, in match order: what the callbacks push
MatchedTexts(s, ms) == [j \in 1..Len(ms) |-> Slice(s, ms[j][1], Last(ms[j]))]

Matched(nodes, s) == MatchedTexts(s, FindAll(nodes, s, 1))

(***************************************************************************)
(* PlaceholderRegistry: code blocks, inline code, links.                   *)
(***************************************************************************)
\* /<BACKTICK>{3}[\s\S]*?<BACKTICK>{3}/g   (three backticks each side)
CodeBlockRegex == <<Lit(FENCE), AnyStarLazy, Lit(FENCE)>>

\* /<BACKTICK>[^<BACKTICK>\n]+<BACKTICK>/g
InlineCodeRegex == <<Lit(TICK), NotPlus({"BACKTICK", "\n"}), Lit(TICK)>>

\* /\[([^\]]+)\]\((?!cite:)([^)]+)\)/g
LinkRegex == <<Lit(<<"[">>), NotPlus({"]"}), Lit(<<"]", "(">>),
               NotAhead(<<Lit(CITE_COLON)>>), NotPlus({")"}), Lit(<<")">>)>>

\* a token numbered by the position of the match in this call alone
CodeBlockTokenFromZero(s, m, j, store) == Placeholder(CODE_BLOCK, j - 1)

CodeBlockToken(s, m, j, store) == Placeholder(CODE_BLOCK, Len(store) + j - 1)

extractCodeBlocks(s, store) ==
    LET R(t, m, j) == CodeBlockToken(t, m, j, store)
    IN  ReplaceAll(CodeBlockRegex, s, R)

codeBlocksPushed(s, store) == store \o Matched(CodeBlockRegex, s)

InlineCodeToken(s, m, j, store) == Placeholder(INLINE_CODE, Len(store) + j - 1)

extractInlineCode(s, store) ==
    LET R(t, m, j) == InlineCodeToken(t, m, j, store)
    IN  ReplaceAll(InlineCodeRegex, s, R)

inlineCodePushed(s, store) == store \o Matched(InlineCodeRegex, s)

LinkToken(s, m, j, store) == Placeholder(LINK_EXPRESSION, Len(store) + j - 1)

extractLinks(s, store) ==
    LET R(t, m, j) == LinkToken(t, m, j, store)
    IN  ReplaceAll(LinkRegex, s, R)

linksPushed(s, store) == store \o Matched(LinkRegex, s)

\* text.replace(/%%<CATEGORY>_(\d+)%%/g, (_, index) => store[index])
Restore(name, s, store) ==
    LET R(t, m, j) == Lookup(store, Cap(t, m, 2))
    IN  ReplaceAll(TokenRegex(name), s, R)

restoreCodeBlocks(s, store) == Restore(CODE_BLOCK, s, store)

restoreInlineCode(s, store) == Restore(INLINE_CODE, s, store)

restoreLinks(s, store) == Restore(LINK_EXPRESSION, s, store)

(***************************************************************************)
(* BoldFormatFixer.                                                        *)
(***************************************************************************)
\* [^\S\n]
HSpace == White \ {"\n"}

\* /:\s\*\*/g
BoldRegex1 == <<Lit(<<":">>), One(White), Lit(STARS)>>

\* /\*\*([^*]+?)\*\*[^\S\n]+/g
BoldRegex2 == <<Lit(STARS), NotPlusLazy({"*"}), Lit(STARS), Plus(HSpace)>>

\* /\*\*(?=.*[^\S\n].*\*\*)([^*]+?)\*\*(?!\s)/g
BoldRegex3 == <<Lit(STARS),
                Ahead(<<DotStar, One(HSpace), DotStar, Lit(STARS)>>),
                NotPlusLazy({"*"}), Lit(STARS), NotAhead(<<One(White)>>)>>

\* /\*\*(?=.*<FWCOLON>.*\*\*)([^*]+?)\*\*(?!\s)/g
BoldRegex4 == <<Lit(STARS),
                Ahead(<<DotStar, Lit(<<"FWCOLON">>), DotStar, Lit(STARS)>>),
                NotPlusLazy({"*"}), Lit(STARS), NotAhead(<<One(White)>>)>>

\* /\@\@(.+?)\@\@#/g
BoldRegex5 == <<Lit(<<"@", "@">>), DotPlusLazy, Lit(<<"@", "@", "#">>)>>

\* /\#\%(.+?)\%\#\@/g
BoldRegex6 == <<Lit(<<"#", "%">>), DotPlusLazy, Lit(<<"%", "#", "@">>)>>

\* / *\*\*([^\s]+?)\*\*(?!\s)/g
BoldRegex7 == <<Star({" "}), Lit(STARS), NotPlusLazy(White), Lit(STARS),
                NotAhead(<<One(White)>>)>>

\* /(\*\*.+?\*\*)\s<mark>/g  for the marks FWCOLON, FWCOMMA, ",", "." and FWSTOP
BoldPunctRegex(mark) ==
    <<Lit(STARS), DotPlusLazy, Lit(STARS), One(White), Lit(<<mark>>)>>

\* '$1<mark>' of the five punctuation passes
BoldPunctPass(s, mark) ==
    LET R(t, m, j) == Slice(t, m[1], m[4]) \o <<mark>>
    IN  ReplaceAll(BoldPunctRegex(mark), s, R)

\* '**$1** ' with $1 the text of node k
BoldSpaced(t, m, k) == STARS \o Cap(t, m, k) \o STARS \o <<" ">>

processBoldFormatting(s) ==
    LET R1(t, m, j) == <<":">> \o STARS
        R2(t, m, j) == <<"@", "@">> \o Cap(t, m, 2) \o <<"@", "@", "#">>
        R3(t, m, j) == <<"#", "%">> \o Cap(t, m, 3) \o <<"%", "#", "@">>
        R4(t, m, j) == BoldSpaced(t, m, 3)
        R5(t, m, j) == BoldSpaced(t, m, 2)
        R7(t, m, j) == <<" ">> \o BoldSpaced(t, m, 3)
    IN  \* the twelve replace() statements, the first one innermost
        BoldPunctPass(BoldPunctPass(BoldPunctPass(BoldPunctPass(BoldPunctPass(
            ReplaceAll(BoldRegex7,
            ReplaceAll(BoldRegex6,
            ReplaceAll(BoldRegex5,
            ReplaceAll(BoldRegex4,
            ReplaceAll(BoldRegex3,
            ReplaceAll(BoldRegex2,
            ReplaceAll(BoldRegex1, s,
            R1), R2), R3), R4), R5), R5), R7),
            "FWCOLON"), "FWCOMMA"), ","), "."), "FWSTOP")

(***************************************************************************)
(* encodeURIComponent and decodeURIComponent.                              *)
(***************************************************************************)
\* the code units U+0000 .. U+007F in order; ASCII[n + 1] has code n
ASCII == <<"CTRL00", "CTRL01", "CTRL02", "CTRL03", "CTRL04", "CTRL05", "CTRL06", "CTRL07",
          "CTRL08", "\t", "\n", "CTRL0B", "CTRL0C", "CTRL0D", "CTRL0E", "CTRL0F",
          "CTRL10", "CTRL11", "CTRL12", "CTRL13", "CTRL14", "CTRL15", "CTRL16", "CTRL17",
          "CTRL18", "CTRL19", "CTRL1A", "CTRL1B", "CTRL1C", "CTRL1D", "CTRL1E", "CTRL1F",
          " ", "!", "\"", "#", "$", "%", "&", "'",
          "(", ")", "*", "+", ",", "-", ".", "/",
          "0", "1", "2", "3", "4", "5", "6", "7",
          "8", "9", ":", ";", "<", "=", ">", "?",
          "@", "A", "B", "C", "D", "E", "F", "G",
          "H", "I", "J", "K", "L", "M", "N", "O",
          "P", "Q", "R", "S", "T", "U", "V", "W",
          "X", "Y", "Z", "[", "\\", "]", "^", "_",
          "BACKTICK", "a", "b", "c", "d", "e", "f", "g",
          "h", "i", "j", "k", "l", "m", "n", "o",
          "p", "q", "r", "s", "t", "u", "v", "w",
          "x", "y", "z", "{", "|", "}", "~", "CTRL7F">>

HexDigits == <<"0", "1", "2", "3", "4", "5", "6", "7", "8", "9",
               "A", "B", "C", "D", "E", "F">>

LowerHex == <<"0", "1", "2", "3", "4", "5", "6", "7", "8", "9",
              "a", "b", "c", "d", "e", "f">>

IsHex(c) == \E v \in 1..Len(HexDigits) : HexDigits[v] = c \/ LowerHex[v] = c

HexVal(c) == (CHOOSE v \in 1..Len(HexDigits) :
                 HexDigits[v] = c \/ LowerHex[v] = c) - 1

\* the UTF-8 bytes of the code units above U+007F that the model writes
Utf8 == [FWBAR |-> <<239, 189, 156>>, FWCOLON |-> <<239, 188, 154>>,
         FWCOMMA |-> <<239, 188, 140>>, FWSTOP |-> <<227, 128, 130>>,
         FWLPAREN |-> <<239, 188, 136>>, FWRPAREN |-> <<239, 188, 137>>,
         DIVSIGN |-> <<195, 183>>]

\* the characters encodeURIComponent leaves as they are
UriUnreserved == Digit \cup Upper \cup Lower \cup
                 {"-", "_", ".", "!", "~", "*", "'", "(", ")"}

IsAscii(c) == \E n \in 1..Len(ASCII) : ASCII[n] = c

CharCode(c) == (CHOOSE n \in 1..Len(ASCII) : ASCII[n] = c) - 1

Escape(byte) == <<"%", HexDigits[(byte \div Len(HexDigits)) + 1],
                  HexDigits[(byte % Len(HexDigits)) + 1]>>

EncodeUnit(c) ==
    IF c \in UriUnreserved THEN <<c>>
    ELSE IF IsAscii(c) THEN Escape(CharCode(c))
    ELSE Flatten([j \in 1..Len(Utf8[c]) |-> Escape(Utf8[c][j])])

encodeURIComponent(s) == Flatten([j \in 1..Len(s) |-> EncodeUnit(s[j])])

\* the escape %XX at position i of s, as a byte; -1 when it is malformed
EscapeByte(s, i) ==
    IF i + 2 <= Len(s) /\ IsHex(s[i + 1]) /\ IsHex(s[i + 2])
    THEN HexVal(s[i + 1]) * Len(HexDigits) + HexVal(s[i + 2])
    ELSE -1

\* the code unit whose UTF-8 bytes are the escapes at i, i+3, ...: <<unit,
\* number of escapes>>, or <<>> when the bytes are no UTF-8 sequence of a code
\* unit of the model
MultiByte(s, i) ==
    LET fits(u) == \A j \in 1..Len(Utf8[u]) :
                      /\ i + 3 * (j - 1) <= Len(s)
                      /\ s[i + 3 * (j - 1)] = "%"
                      /\ EscapeByte(s, i + 3 * (j - 1)) = Utf8[u][j]
        us == {u \in DOMAIN Utf8 : fits(u)}
    IN  IF us = {} THEN <<>>
        ELSE LET u == CHOOSE u \in us : TRUE IN <<u, Len(Utf8[u])>>

\* decodeURIComponent(s) from position i on: <<"ok", decoded>>, or <<"throw">>
\* for the URIError of a malformed escape or byte sequence
RECURSIVE Decode(_, _)
Decode(s, i) ==
    IF i > Len(s) THEN <<"ok", <<>>>>
    ELSE IF s[i] # "%"
    THEN LET r == Decode(s, i + 1)
         IN  IF r[1] = "ok" THEN <<"ok", <<s[i]>> \o r[2]>> ELSE r
    ELSE LET b == EscapeByte(s, i)
         IN  IF b < 0 THEN <<"throw">>
             ELSE IF b < Len(ASCII)
             THEN LET r == Decode(s, i + 3)
                  IN  IF r[1] = "ok" THEN <<"ok", <<ASCII[b + 1]>> \o r[2]>>
                      ELSE r
             ELSE LET mb == MultiByte(s, i)
                  IN  IF mb = <<>> THEN <<"throw">>
                      ELSE LET r == Decode(s, i + 3 * mb[2])
                           IN  IF r[1] = "ok"
                               THEN <<"ok", <<mb[1]>> \o r[2]>>
                               ELSE r

decodeURIComponent(s) == Decode(s, 1)

\* String.prototype.trim
RECURSIVE TrimStart(_)
TrimStart(s) ==
    IF s # <<>> /\ Head(s) \in White THEN TrimStart(Tail(s)) ELSE s

RECURSIVE TrimEnd(_)
TrimEnd(s) ==
    IF s # <<>> /\ Last(s) \in White
    THEN TrimEnd(SubSeq(s, 1, Len(s) - 1)) ELSE s

Trim(s) == TrimEnd(TrimStart(s))

(***************************************************************************)
(* CitationNormalizer.                                                     *)
(***************************************************************************)
TEXT_FRAGMENT_PREFIX == <<"#", ":", "~", ":", "t", "e", "x", "t", "=">>

encodeCitationPayload(payload) ==
    LET value == Trim(payload)
        decoded == decodeURIComponent(value)
    IN  IF value = <<>> THEN <<>>
        ELSE IF decoded[1] = "ok" THEN encodeURIComponent(decoded[2])
        ELSE encodeURIComponent(value)

\* /\[\d+\]\(#:~:text=[^)\n]+\)/g
citationLinkRegex ==
    <<Lit(<<"[">>), Plus(Digit), Lit(<<"]", "(">> \o TEXT_FRAGMENT_PREFIX),
      NotPlus({")", "\n"}), Lit(<<")">>)>>

\* /(?:\[\d+\]\(#:~:text=[^)\n]+\)\s*){2,}/g
citationGroupRegex == <<Repeat(citationLinkRegex \o <<Star(White)>>, 2)>>

\* /\s*$/
TrailingWhitespaceRegex == <<Star(White), Eot>>

\* the separator the links of a group are joined with
RECURSIVE Join(_, _)
Join(ss, sep) ==
    IF ss = <<>> THEN <<>>
    ELSE IF Len(ss) = 1 THEN ss[1]
    ELSE ss[1] \o sep \o Join(Tail(ss), sep)

\* the callback of formatConsecutiveCitationLinks on one matched group
FormatGroup(group) ==
    LET trailingWhitespaceMatch == FindAll(TrailingWhitespaceRegex, group, 1)[1]
        trailingWhitespace == Slice(group, trailingWhitespaceMatch[1],
                                    Last(trailingWhitespaceMatch))
        coreGroup == IF trailingWhitespace # <<>>
                     THEN SubSeq(group, 1, Len(group) - Len(trailingWhitespace))
                     ELSE group
        links == Matched(citationLinkRegex, coreGroup)
    IN  IF Len(links) < 2 THEN group
        ELSE Join(links, <<"FWBAR">>) \o trailingWhitespace

formatConsecutiveCitationLinks(s) ==
    LET R(t, m, j) == FormatGroup(Slice(t, m[1], Last(m)))
    IN  ReplaceAll(citationGroupRegex, s, R)

\* /\[(\d+)\]\(#:~:text=/g
citationStartRegex ==
    <<Lit(<<"[">>), Plus(Digit), Lit(<<"]", "(">> \o TEXT_FRAGMENT_PREFIX)>>

\* citationStartRegex.exec(text) with lastIndex = from - 1: the first match at
\* or after from, or <<>>
Exec(nodes, s, from) == First(MatchesAt(nodes, s), from)

\* a scan that stops at the first closing parenthesis whatever the depth
RECURSIVE ScanFirstClosing(_, _, _)
ScanFirstClosing(s, scanIndex, parenthesisDepth) ==
    IF scanIndex > Len(s) THEN 0
    ELSE IF s[scanIndex] = "\n" THEN 0
    ELSE IF s[scanIndex] = ")" THEN scanIndex
    ELSE ScanFirstClosing(s, scanIndex + 1, parenthesisDepth)

\* the inner while loop: from scanIndex on with parenthesisDepth, the position
\* of the closing parenthesis that brings the depth to 0, or 0 when a newline
\* or the end of the text comes first
RECURSIVE ScanClosing(_, _, _)
ScanClosing(s, scanIndex, parenthesisDepth) ==
    IF scanIndex > Len(s) THEN 0
    ELSE IF s[scanIndex] = "\n" THEN 0
    ELSE IF s[scanIndex] = "("
    THEN ScanClosing(s, scanIndex + 1, parenthesisDepth + 1)
    ELSE IF s[scanIndex] = ")"
    THEN IF parenthesisDepth - 1 = 0 THEN scanIndex
         ELSE ScanClosing(s, scanIndex + 1, parenthesisDepth - 1)
    ELSE ScanClosing(s, scanIndex + 1, parenthesisDepth)

\* the outer while loop of normalizeTextFragmentLinks
RECURSIVE NormalizeLoop(_, _, _, _, _)
NormalizeLoop(s, lastIndex, cursor, normalizedText, hasReplacement) ==
    LET startMatch == Exec(citationStartRegex, s, lastIndex)
    IN  IF startMatch = <<>>
        THEN IF hasReplacement
             THEN normalizedText \o SubSeq(s, cursor, Len(s))
             ELSE s
        ELSE
        LET citationNumber == Cap(s, startMatch, 2)
            linkStartIndex == startMatch[1]
            payloadStartIndex == Last(startMatch)
            scanIndex == ScanClosing(s, payloadStartIndex, 1)
            fragmentText == Slice(s, payloadStartIndex, scanIndex)
        IN  IF scanIndex = 0
            THEN NormalizeLoop(s, payloadStartIndex, cursor, normalizedText,
                               hasReplacement)
            ELSE NormalizeLoop(s, scanIndex + 1, scanIndex + 1,
                     normalizedText \o Slice(s, cursor, linkStartIndex)
                        \o <<"[">> \o citationNumber \o <<"]", "(">>
                        \o TEXT_FRAGMENT_PREFIX
                        \o encodeCitationPayload(fragmentText) \o <<")">>,
                     TRUE)

normalizeTextFragmentLinks(s) == NormalizeLoop(s, 1, 1, <<>>, FALSE)

processCitations(s) ==
    IF s = <<>> THEN s
    ELSE formatConsecutiveCitationLinks(normalizeTextFragmentLinks(s))

(***************************************************************************)
(* Literals of the think-tag, math and pipeline code.                      *)
(***************************************************************************)
THINK_OPEN == <<"<", "t", "h", "i", "n", "k", ">">>

THINK_CLOSE == <<"<", "/", "t", "h", "i", "n", "k", ">">>

QUOTE_MARK == <<">", " ">>

IMAGE_TAG_OPEN ==
    <<"<", "s", "p", "a", "n", " ", "c", "l", "a", "s", "s", "=", "\"", "i",
      "m", "a", "g", "e", "-", "t", "a", "g", "\"">>

SPAN_CLOSE == <<"<", "/", "s", "p", "a", "n", ">">>

MATHDS_OPEN == <<"\\", "m", "a", "t", "h", "d", "s", "{">>

BEGIN_ALIGN ==
    <<"\\", "b", "e", "g", "i", "n", "{", "a", "l", "i", "g", "n", "*", "}">>

END_ALIGN == <<"\\", "e", "n", "d", "{", "a", "l", "i", "g", "n", "*", "}">>

BEGIN_EQUATION ==
    <<"\\", "b", "e", "g", "i", "n", "{", "e", "q", "u", "a", "t", "i", "o",
      "n", "}">>

END_EQUATION ==
    <<"\\", "e", "n", "d", "{", "e", "q", "u", "a", "t", "i", "o", "n", "}">>

LABEL_EQ == <<"\\", "l", "a", "b", "e", "l", "{", "e", "q", ":">>

BOXED_OPEN == <<"\\", "b", "o", "x", "e", "d", "{">>

TEXTSC_OPEN == <<"\\", "t", "e", "x", "t", "s", "c", "{">>

DISPLAY_OPEN == <<"\\", "[">>

DISPLAY_CLOSE == <<"\\", "]">>

INLINE_OPEN == <<"\\", "(">>

INLINE_CLOSE == <<"\\", ")">>

ESCAPED_INLINE_OPEN == <<"\\", "\\", "(">>

ESCAPED_INLINE_CLOSE == <<"\\", "\\", ")">>

DOLLARS == <<"$", "$">>

DIV_COMMAND == <<"\\", "d", "i", "v">>

BM_COMMAND == <<"\\", "b", "m">>

BOLDSYMBOL_OPEN ==
    <<"\\", "b", "o", "l", "d", "s", "y", "m", "b", "o", "l", "{">>

COLONEQQ == <<"\\", "c", "o", "l", "o", "n", "e", "q", "q">>

MATHREL == <<"\\", "m", "a", "t", "h", "r", "e", "l", "{", ":", "=", "}">>

LT_ENTITY == <<"&", "l", "t", ";">>

GT_ENTITY == <<"&", "g", "t", ";">>

CONTAINER_OPEN ==
    <<"<", "d", "i", "v", " ", "c", "l", "a", "s", "s", "=", "\"", "m", "a",
      "t", "h", "-", "d", "i", "s", "p", "l", "a", "y", "-", "c", "o", "n",
      "t", "a", "i", "n", "e", "r", "\"", ">">>

CONTAINER_CLOSE == <<"<", "/", "d", "i", "v", ">">>

P_OPEN == <<"<", "p", ">">>

P_CLOSE == <<"<", "/", "p", ">">>

RULE_LINE == <<"-", "-", "-", "\n">>

\* the glyph of mathdsMap, as its UTF-16 code units
mathdsMap(c) ==
    CASE c = "A" -> <<"U+D835", "U+DD38">>
      [] c = "B" -> <<"U+D835", "U+DD39">>
      [] c = "C" -> <<"U+2102">>
      [] c = "D" -> <<"U+D835", "U+DD3B">>
      [] c = "E" -> <<"U+D835", "U+DD3C">>
      [] c = "F" -> <<"U+D835", "U+DD3D">>
      [] c = "G" -> <<"U+D835", "U+DD3E">>
      [] c = "H" -> <<"U+210D">>
      [] c = "I" -> <<"U+D835", "U+DD40">>
      [] c = "J" -> <<"U+D835", "U+DD41">>
      [] c = "K" -> <<"U+D835", "U+DD42">>
      [] c = "L" -> <<"U+D835", "U+DD43">>
      [] c = "M" -> <<"U+D835", "U+DD44">>
      [] c = "N" -> <<"U+2115">>
      [] c = "O" -> <<"U+D835", "U+DD46">>
      [] c = "P" -> <<"U+2119">>
      [] c = "Q" -> <<"U+211A">>
      [] c = "R" -> <<"U+211D">>
      [] c = "S" -> <<"U+D835", "U+DD4A">>
      [] c = "T" -> <<"U+D835", "U+DD4B">>
      [] c = "U" -> <<"U+D835", "U+DD4C">>
      [] c = "V" -> <<"U+D835", "U+DD4D">>
      [] c = "W" -> <<"U+D835", "U+DD4E">>
      [] c = "X" -> <<"U+D835", "U+DD4F">>
      [] c = "Y" -> <<"U+D835", "U+DD50">>
      [] c = "Z" -> <<"U+2124">>
      [] c = "0" -> <<"U+D835", "U+DFD8">>
      [] c = "1" -> <<"U+D835", "U+DFD9">>
      [] c = "2" -> <<"U+D835", "U+DFDA">>
      [] c = "3" -> <<"U+D835", "U+DFDB">>
      [] c = "4" -> <<"U+D835", "U+DFDC">>
      [] c = "5" -> <<"U+D835", "U+DFDD">>
      [] c = "6" -> <<"U+D835", "U+DFDE">>
      [] c = "7" -> <<"U+D835", "U+DFDF">>
      [] c = "8" -> <<"U+D835", "U+DFE0">>
      [] c = "9" -> <<"U+D835", "U+DFE1">>

(***************************************************************************)
(* ThinkBlockTransformer.                                                  *)
(***************************************************************************)
\* s.split('\n')
RECURSIVE Split(_, _)
Split(s, from) ==
    LET nl == {i \in from..Len(s) : s[i] = "\n"}
    IN  IF nl = {} THEN <<SubSeq(s, from, Len(s))>>
        ELSE LET i == CHOOSE i \in nl : \A j \in nl : i <= j
             IN  <<Slice(s, from, i)>> \o Split(s, i + 1)

\* content.trim().split('\n').map(line => '> ' + line.trim()).join('\n')
Blockquote(content) ==
    LET lines == Split(Trim(content), 1)
    IN  Join([j \in 1..Len(lines) |-> QUOTE_MARK \o Trim(lines[j])], <<"\n">>)

\* /<think>([\s\S]*?)<\/think>/g
ThinkClosedRegex == <<Lit(THINK_OPEN), AnyStarLazy, Lit(THINK_CLOSE)>>

\* /<think>\n?([\s\S]*?)(?=<\/think>|$)/g
ThinkOpenRegex ==
    <<Lit(THINK_OPEN), Opt({"\n"}), AnyStarLazy,
      Ahead(<<Alt(<< <<Lit(THINK_CLOSE)>>, <<Eot>> >>)>>)>>

\* the first replace(): every <think>...</think> pair
ThinkClosedPass(s) ==
    LET Ra(t, m, j) == Blockquote(Cap(t, m, 2))
    IN  ReplaceAll(ThinkClosedRegex, s, Ra)

\* the second replace(): every <think> that is left
ThinkOpenPass(s) ==
    LET Rb(t, m, j) ==
            IF ~Contains(Slice(t, m[1], Last(m)), THINK_CLOSE)
            THEN Blockquote(Cap(t, m, 3))
            ELSE Slice(t, m[1], Last(m))
    IN  ReplaceAll(ThinkOpenRegex, s, Rb)

processThinkTags(s) == ThinkOpenPass(ThinkClosedPass(s))

(***************************************************************************)
(* MathNormalizer.                                                         *)
(***************************************************************************)
\* String.prototype.toUpperCase on the letters a-z
ToUpper(c) ==
    IF c \in Lower
    THEN UpperSeq[CHOOSE n \in 1..Len(LowerSeq) : LowerSeq[n] = c]
    ELSE c

\* /\\mathds\{([A-Z0-9])\}/g
MathdsRegex == <<Lit(MATHDS_OPEN), One(Upper \cup Digit), Lit(<<"}">>)>>

\* /^\s*\\begin\{align\*\}/gm  and  /^\s*\\begin\{equation\}/gm
BeginRegex(begin) == <<Bol, Star(White), Lit(begin)>>

\* /\\end\{align\*\}\s*$/gm  and  /\\end\{equation\}\s*$/gm
EndRegex(end) == <<Lit(end), Star(White), Eol>>

\* /\\label{eq:.*?}/gm
LabelRegex == <<Lit(LABEL_EQ), DotStarLazy, Lit(<<"}">>)>>

\* /(\\\[\s*)?\$*\\boxed\{([\s\S]+)\}\$*(\s*\\\])?/g
BoxedRegex ==
    <<OptGroup(<<Lit(DISPLAY_OPEN), Star(White)>>), Star({"$"}),
      Lit(BOXED_OPEN), NotPlus({}), Lit(<<"}">>), Star({"$"}),
      OptGroup(<<Star(White), Lit(DISPLAY_CLOSE)>>)>>

\* /\\textsc\{([^}]+)\}/g
TextscRegex == <<Lit(TEXTSC_OPEN), NotPlus({"}"}), Lit(<<"}">>)>>

processMathEnvironments(s) ==
    LET Rds(t, m, j) == mathdsMap(t[m[2]])
        Rba(t, m, j) == DISPLAY_OPEN \o <<"\n">> \o BEGIN_ALIGN
        Rea(t, m, j) == END_ALIGN \o <<"\n">> \o DISPLAY_CLOSE
        Rlb(t, m, j) == <<>>
        Rbe(t, m, j) == DISPLAY_OPEN \o <<"\n">> \o BEGIN_EQUATION
        Ree(t, m, j) == END_EQUATION \o <<"\n">> \o DISPLAY_CLOSE
        Rbx(t, m, j) == DISPLAY_OPEN \o BOXED_OPEN \o Cap(t, m, 4) \o <<"}">>
                        \o DISPLAY_CLOSE
        Rsc(t, m, j) == LET c == Cap(t, m, 2)
                        IN  [n \in 1..Len(c) |-> ToUpper(c[n])]
    IN  \* the eight replace() statements, the first one innermost
        ReplaceAll(TextscRegex,
        ReplaceAll(BoxedRegex,
        ReplaceAll(EndRegex(END_EQUATION),
        ReplaceAll(BeginRegex(BEGIN_EQUATION),
        ReplaceAll(LabelRegex,
        ReplaceAll(EndRegex(END_ALIGN),
        ReplaceAll(BeginRegex(BEGIN_ALIGN),
        ReplaceAll(MathdsRegex, s,
        Rds), Rba), Rea), Rlb), Rbe), Ree), Rbx), Rsc)

\* /(\\\\\([^]+?\\\\\))|(\\\([^]+?\\\))|(\\\[[\s\S]+?\\\])|(\$\$[\s\S]+?\$\$)
\*  |(\$(?!\$)[^\n]*?\$)/g
MathRegex ==
    <<Alt(<< <<Lit(ESCAPED_INLINE_OPEN), AnyPlusLazy, Lit(ESCAPED_INLINE_CLOSE)>>,
             <<Lit(INLINE_OPEN), AnyPlusLazy, Lit(INLINE_CLOSE)>>,
             <<Lit(DISPLAY_OPEN), AnyPlusLazy, Lit(DISPLAY_CLOSE)>>,
             <<Lit(DOLLARS), AnyPlusLazy, Lit(DOLLARS)>>,
             <<Lit(<<"$">>), NotAhead(<<Lit(<<"$">>)>>), DotStarLazy,
               Lit(<<"$">>)>> >>)>>

\* /\\div\b/g  and  /\\coloneqq\b/g
CommandRegex(command) == <<Lit(command), WordBoundary>>

\* /\\\[\s*(.+?)\s*\\+\]/g
DisplaySpacingRegex ==
    <<Lit(DISPLAY_OPEN), Star(White), DotPlusLazy, Star(White), Plus({"\\"}),
      Lit(<<"]">>)>>

\* /\\\(\s*(.+?)\s*\\<FWRPAREN>/g  and  /\\\(\s*(.+?)\s*\\<FWCOMMA>/g
InlineSpacingRegex(mark) ==
    <<Lit(INLINE_OPEN), Star(White), DotPlusLazy, Star(White),
      Lit(<<"\\", mark>>)>>

\* /%\s/g
PercentSpaceRegex == <<Lit(<<"%">>), One(White)>>

\* /\\bm\{([^{}]+)\}/g
BmBracedRegex == <<Lit(BM_COMMAND \o <<"{">>), NotPlus({"{", "}"}), Lit(<<"}">>)>>

\* /\\bm\s*(\\[A-Za-z]+|[A-Za-z0-9])/g
BmBareRegex ==
    <<Lit(BM_COMMAND), Star(White),
      Alt(<< <<Lit(<<"\\">>), Plus(Upper \cup Lower)>>,
             <<One(Upper \cup Lower \cup Digit)>> >>)>>

StartsWith(s, lit) == HasAt(s, 1, lit)

\* the callback of extractMathExpressions on one match: what is pushed
MathFix(match) ==
    LET Rdiv(t, m, j) == <<" ", "DIVSIGN", " ">>
        Rdsp(t, m, j) == DISPLAY_OPEN \o <<" ">> \o Cap(t, m, 3) \o <<" ">>
                         \o DISPLAY_CLOSE
        Rinl(t, m, j) == INLINE_OPEN \o <<" ">> \o Cap(t, m, 3) \o <<" ">>
                         \o INLINE_CLOSE
        Rinc(t, m, j) == Rinl(t, m, j) \o <<"FWCOMMA">>
        Rlt(t, m, j) == LT_ENTITY
        Rgt(t, m, j) == GT_ENTITY
        Rnone(t, m, j) == <<>>
        Rbmb(t, m, j) == BOLDSYMBOL_OPEN \o Cap(t, m, 2) \o <<"}">>
        Rbm(t, m, j) == BOLDSYMBOL_OPEN \o Cap(t, m, 3) \o <<"}">>
        Rceq(t, m, j) == MATHREL
        \* the ten replace() statements, the first one innermost
        replaced ==
            ReplaceAll(CommandRegex(COLONEQQ),
            ReplaceAll(BmBareRegex,
            ReplaceAll(BmBracedRegex,
            ReplaceAll(PercentSpaceRegex,
            ReplaceAll(<<Lit(<<">">>)>>,
            ReplaceAll(<<Lit(<<"<">>)>>,
            ReplaceAll(InlineSpacingRegex("FWCOMMA"),
            ReplaceAll(InlineSpacingRegex("FWRPAREN"),
            ReplaceAll(DisplaySpacingRegex,
            ReplaceAll(CommandRegex(DIV_COMMAND), match,
            Rdiv), Rdsp), Rinl), Rinc), Rlt), Rgt), Rnone), Rbmb), Rbm), Rceq)
    IN  IF StartsWith(replaced, DISPLAY_OPEN) \/ StartsWith(replaced, DOLLARS)
        THEN CONTAINER_OPEN \o replaced \o CONTAINER_CLOSE
        ELSE replaced

MathToken(s, m, j, store) == Placeholder(MATH_EXPRESSION, Len(store) + j - 1)

extractMathExpressions(s, store) ==
    LET R(t, m, j) == MathToken(t, m, j, store)
    IN  ReplaceAll(MathRegex, s, R)

mathPushed(s, store) ==
    LET ms == Matched(MathRegex, s)
    IN  store \o [j \in 1..Len(ms) |-> MathFix(ms[j])]

restoreMathExpressions(s, store) == Restore(MATH_EXPRESSION, s, store)

(***************************************************************************)
(* PipelineOrchestrator: the statements of processMathAndMarkdown that are *)
(* not calls of the functions above.                                       *)
(***************************************************************************)
\* /<span class="image-tag".*?<\/span>/g
ImageTagRegex == <<Lit(IMAGE_TAG_OPEN), DotStarLazy, Lit(SPAN_CLOSE)>>

ImageToken(s, m, j, store) == Placeholder(IMAGE_EXPRESSION, Len(store) + j - 1)

extractImages(s, store) ==
    LET R(t, m, j) == ImageToken(t, m, j, store)
    IN  ReplaceAll(ImageTagRegex, s, R)

imagesPushed(s, store) == store \o Matched(ImageTagRegex, s)

restoreImages(s, store) == Restore(IMAGE_EXPRESSION, s, store)

\* text.replace(/\\\[([a-zA-Z\d]+)\]/g, '[$1]')
unescapeBrackets(s) ==
    LET R(t, m, j) == <<"[">> \o Cap(t, m, 2) \o <<"]">>
    IN  ReplaceAll(<<Lit(DISPLAY_OPEN), Plus(Upper \cup Lower \cup Digit),
                     Lit(<<"]">>)>>, s, R)

\* text.replace(/^---\n$/gm, '')
removeRules(s) ==
    LET R(t, m, j) == <<>>
    IN  ReplaceAll(<<Bol, Lit(RULE_LINE), Eol>>, s, R)

\* text.replace(/%\n\s*/g, '')
removePercentNewline(s) ==
    LET R(t, m, j) == <<>>
    IN  ReplaceAll(<<Lit(<<"%", "\n">>), Star(White)>>, s, R)

\* text.replace(/<FWLPAREN>\\\((.+?)\\<FWRPAREN>/g, '<FWLPAREN>\\($1\\)<FWRPAREN>')
fixFullWidthParen(s) ==
    LET R(t, m, j) == <<"FWLPAREN">> \o INLINE_OPEN \o Cap(t, m, 2)
                      \o INLINE_CLOSE \o <<"FWRPAREN">>
    IN  ReplaceAll(<<Lit(<<"FWLPAREN">> \o INLINE_OPEN), DotPlusLazy,
                     Lit(<<"\\", "FWRPAREN">>)>>, s, R)

\* marked.parse(text): the external Markdown renderer, which is given the
\* string and returns HTML; modelled as one paragraph around the string
markedParse(s) == P_OPEN \o s \o P_CLOSE \o <<"\n">>

(***************************************************************************)
(* The diagram-render scheduler and renderMarkdown.                        *)
(***************************************************************************)
CLASS_EQ == <<"c", "l", "a", "s", "s", "=">>

MERMAID == <<"m", "e", "r", "m", "a", "i", "d">>

\* /class=["']mermaid["']/
MermaidRegex ==
    <<Lit(CLASS_EQ), One({"\"", "'"}), Lit(MERMAID), One({"\"", "'"})>>

\* /class=["']mermaid["']/.test(html)
MermaidTest(s) == Exec(MermaidRegex, s, 1) # <<>>

\* the module's variables when it has been loaded
ModuleLoaded ==
    /\ markedConfigured = FALSE
    /\ mermaidRenderScheduled = FALSE
    /\ idleCallbacks = 0
    /\ requests = 0
    /\ attempts = 0
    /\ invocations = 0
    /\ served = 0

\* a call that hands run to the host whether or not one is pending
QueuedAlways(scheduled, queued) == queued + 1

\* the callbacks the host holds after scheduleMermaidRender(): nothing is
\* handed over when the flag is set
QueuedAfterSchedule(scheduled, queued) ==
    IF scheduled THEN queued ELSE queued + 1

scheduleMermaidRender ==
    /\ mermaidRenderScheduled' = TRUE
    /\ idleCallbacks' =
           QueuedAfterSchedule(mermaidRenderScheduled, idleCallbacks)
    /\ requests' = requests + 1
    /\ UNCHANGED <<renderMermaidDiagrams, attempts, invocations, served>>

\* what renderMarkdown does besides returning newHtml: configureMarked(), and
\* scheduleMermaidRender() when newHtml holds a diagram container
renderMarkdownEffects(newHtml) ==
    /\ markedConfigured' = TRUE
    /\ IF MermaidTest(newHtml)
       THEN scheduleMermaidRender
       ELSE UNCHANGED <<mermaidRenderScheduled, idleCallbacks,
                        renderMermaidDiagrams, requests, attempts,
                        invocations, served>>

\* html.replace(/<p>\s*(<div class="math-display-container">[\s\S]*?<\/div>)
\*              \s*<\/p>/g, '$1')
stripParagraph(s) ==
    LET R(t, m, j) == Slice(t, m[3], m[6])
    IN  ReplaceAll(<<Lit(P_OPEN), Star(White), Lit(CONTAINER_OPEN), AnyStarLazy,
                     Lit(CONTAINER_CLOSE), Star(White), Lit(P_CLOSE)>>, s, R)

(***************************************************************************)
(* Input texts: concatenations of at most max pieces.                      *)
(***************************************************************************)
Texts(pieces, max) ==
    {Flatten(f) : f \in UNION {[1..k -> pieces] : k \in 0..max}}

\* a text holds placeholder-like text when it holds the start of a token of
\* some category, %%<CATEGORY>_
Categories == {CODE_BLOCK, INLINE_CODE, LINK_EXPRESSION, IMAGE_EXPRESSION,
               MATH_EXPRESSION}

HasPlaceholderLike(s) == \E c \in Categories : Contains(s, PERCENTS \o c)

HasToken(s) == \E c \in Categories : FindAll(TokenRegex(c), s, 1) # <<>>

(***************************************************************************)
(* Specification Spec: one run of processMathAndMarkdown(input).           *)
(***************************************************************************)
MaxPipelinePieces == 3

SampleCodeBlock == FENCE \o <<"c">> \o FENCE
SampleInlineCode == TICK \o <<"c">> \o TICK
SampleLink == <<"[", "a", "]", "(", "b", ")">>
SampleCitation == <<"[", "1", "]", "(">> \o TEXT_FRAGMENT_PREFIX \o <<"q", ")">>

PipelinePieces == {SampleCodeBlock, SampleInlineCode, SampleLink,
                   SampleCitation, <<"$">>, <<"\n">>, <<" ">>, <<"x">>}

PipelineInputs == Texts(PipelinePieces, MaxPipelinePieces)

Init ==
    /\ input \in PipelineInputs
    /\ text = input
    /\ pc = "extractCodeBlocks"
    /\ category = "none"
    /\ parts = <<>>
    /\ html = <<>>
    /\ handed = <<>>
    /\ outputs = <<>>
    /\ normalized = <<>>
    /\ storeBefore = <<>>
    /\ codeBlockExpressions = <<>>
    /\ inlineCodeExpressions = <<>>
    /\ imageExpressions = <<>>
    /\ linkExpressions = <<>>
    /\ mathExpressions = <<>>
    /\ ModuleLoaded /\ renderMermaidDiagrams = FALSE

fixed == <<category, parts, input, outputs, normalized, storeBefore>>

\* a statement  text = f(text)  that touches no store
TextStep(from, to, newText) ==
    /\ pc = from
    /\ text' = newText
    /\ pc' = to
    /\ UNCHANGED <<scheduler, fixed, html, handed, stores>>

PipeExtractCodeBlocks ==
    /\ pc = "extractCodeBlocks"
    /\ text' = extractCodeBlocks(text, codeBlockExpressions)
    /\ codeBlockExpressions' = codeBlocksPushed(text, codeBlockExpressions)
    /\ pc' = "extractInlineCode"
    /\ UNCHANGED <<scheduler, fixed, html, handed, inlineCodeExpressions,
                   imageExpressions, linkExpressions, mathExpressions>>

PipeExtractInlineCode ==
    /\ pc = "extractInlineCode"
    /\ text' = extractInlineCode(text, inlineCodeExpressions)
    /\ inlineCodeExpressions' = inlineCodePushed(text, inlineCodeExpressions)
    /\ pc' = "extractImages"
    /\ UNCHANGED <<scheduler, fixed, html, handed, codeBlockExpressions,
                   imageExpressions, linkExpressions, mathExpressions>>

PipeExtractImages ==
    /\ pc = "extractImages"
    /\ text' = extractImages(text, imageExpressions)
    /\ imageExpressions' = imagesPushed(text, imageExpressions)
    /\ pc' = "extractLinks"
    /\ UNCHANGED <<scheduler, fixed, html, handed, codeBlockExpressions,
                   inlineCodeExpressions, linkExpressions, mathExpressions>>

PipeExtractLinks ==
    /\ pc = "extractLinks"
    /\ text' = extractLinks(text, linkExpressions)
    /\ linkExpressions' = linksPushed(text, linkExpressions)
    /\ pc' = "unescapeBrackets"
    /\ UNCHANGED <<scheduler, fixed, html, handed, codeBlockExpressions,
                   inlineCodeExpressions, imageExpressions, mathExpressions>>

PipeUnescapeBrackets ==
    TextStep("unescapeBrackets", "mathEnvironments", unescapeBrackets(text))

PipeMathEnvironments ==
    TextStep("mathEnvironments", "removeRules", processMathEnvironments(text))

PipeRemoveRules == TextStep("removeRules", "thinkTags", removeRules(text))

PipeThinkTags ==
    TextStep("thinkTags", "removePercentNewline", processThinkTags(text))

PipeRemovePercentNewline ==
    TextStep("removePercentNewline", "fixFullWidthParen",
             removePercentNewline(text))

PipeFixFullWidthParen ==
    TextStep("fixFullWidthParen", "extractMath", fixFullWidthParen(text))

PipeExtractMath ==
    /\ pc = "extractMath"
    /\ text' = extractMathExpressions(text, mathExpressions)
    /\ mathExpressions' = mathPushed(text, mathExpressions)
    /\ pc' = "boldFormatting"
    /\ UNCHANGED <<scheduler, fixed, html, handed, codeBlockExpressions,
                   inlineCodeExpressions, imageExpressions, linkExpressions>>

PipeBoldFormatting ==
    TextStep("boldFormatting", "citations", processBoldFormatting(text))

PipeCitations == TextStep("citations", "restoreLinks", processCitations(text))

PipeRestoreLinks ==
    TextStep("restoreLinks", "restoreInlineCode",
             restoreLinks(text, linkExpressions))

PipeRestoreInlineCode ==
    TextStep("restoreInlineCode", "restoreCodeBlocks",
             restoreInlineCode(text, inlineCodeExpressions))

PipeRestoreCodeBlocks ==
    TextStep("restoreCodeBlocks", "render",
             restoreCodeBlocks(text, codeBlockExpressions))

\* let html = renderMarkdown(text)
PipeRender ==
    /\ pc = "render"
    /\ handed' = text
    /\ html' = markedParse(text)
    /\ renderMarkdownEffects(markedParse(text))
    /\ pc' = "restoreMath"
    /\ UNCHANGED <<fixed, text, stores>>

\* a statement  html = f(html)
HtmlStep(from, to, newHtml) ==
    /\ pc = from
    /\ html' = newHtml
    /\ pc' = to
    /\ UNCHANGED <<scheduler, fixed, text, handed, stores>>

PipeRestoreMath ==
    HtmlStep("restoreMath", "restoreImages",
             restoreMathExpressions(html, mathExpressions))

PipeRestoreImages ==
    HtmlStep("restoreImages", "stripParagraph",
             restoreImages(html, imageExpressions))

PipeStripParagraph == HtmlStep("stripParagraph", "done", stripParagraph(html))

Next ==
    \/ PipeExtractCodeBlocks
    \/ PipeExtractInlineCode
    \/ PipeExtractImages
    \/ PipeExtractLinks
    \/ PipeUnescapeBrackets
    \/ PipeMathEnvironments
    \/ PipeRemoveRules
    \/ PipeThinkTags
    \/ PipeRemovePercentNewline
    \/ PipeFixFullWidthParen
    \/ PipeExtractMath
    \/ PipeBoldFormatting
    \/ PipeCitations
    \/ PipeRestoreLinks
    \/ PipeRestoreInlineCode
    \/ PipeRestoreCodeBlocks
    \/ PipeRender
    \/ PipeRestoreMath
    \/ PipeRestoreImages
    \/ PipeStripParagraph

Spec == Init /\ [][Next]_vars

\* the renderer has been called: handed holds what it was given
Rendered == pc \in {"restoreMath", "restoreImages", "stripParagraph", "done"}

\* C1: for an input without placeholder-like text, every fenced code block
\* and every inline code span that was extracted is present, character for
\* character, in the string handed to the Markdown renderer.
C1_CodeSpansReachRenderer ==
    (Rendered /\ ~HasPlaceholderLike(input)) =>
        /\ \A j \in 1..Len(codeBlockExpressions) :
               Contains(handed, codeBlockExpressions[j])
        /\ \A j \in 1..Len(inlineCodeExpressions) :
               Contains(handed, inlineCodeExpressions[j])

\* C2: for an input without placeholder-like text, the final HTML holds no
\* placeholder token of any category, also when a protected region lies
\* inside a span that is extracted as math later.
C2_NoTokenInFinalHtml ==
    (pc = "done" /\ ~HasPlaceholderLike(input)) => ~HasToken(html)

\* C9: the link extraction never stores a citation marker of the scheme that
\* normalizeTextFragmentLinks handles, so every such marker is still literal
\* text when processCitations runs.
C9_CitationsAreNotLinks ==
    \A j \in 1..Len(linkExpressions) :
        Match(citationStartRegex, 1, linkExpressions[j], 1) = <<>>

(***************************************************************************)
(* Specification SpecRegistry: one category of the placeholder registry on *)
(* its own.  extract is called on input with a store that earlier calls    *)
(* may have filled, and restore is called on what extract returned; or     *)
(* restore is called on input directly, with the store as it is.           *)
(***************************************************************************)
MaxRegistryPieces == 3
MaxPriorStore == 10

RegistryCategories == {"codeBlock", "inlineCode", "link", "image", "math"}

CategoryName(c) ==
    CASE c = "codeBlock" -> CODE_BLOCK
      [] c = "inlineCode" -> INLINE_CODE
      [] c = "link" -> LINK_EXPRESSION
      [] c = "image" -> IMAGE_EXPRESSION
      [] c = "math" -> MATH_EXPRESSION

SampleImage == IMAGE_TAG_OPEN \o <<"i">> \o SPAN_CLOSE

\* the pieces the input of a category is assembled from: a region of the
\* category, the delimiters of its regions, filler, a percent sign and a
\* token of the category
RegistryPieces(c) ==
    {<<"c">>, <<"\n">>, <<"%">>, Placeholder(CategoryName(c), 1)}
    \cup CASE c = "codeBlock" -> {SampleCodeBlock, FENCE, TICK}
           [] c = "inlineCode" -> {SampleInlineCode, FENCE, TICK}
           [] c = "link" -> {SampleLink, <<"[", "a", "]">>, <<"(", "b", ")">>,
                             <<"(">> \o CITE_COLON, <<")">>}
           [] c = "image" -> {SampleImage}
           [] c = "math" -> {<<"$">>}

\* a region an earlier call has stored
PriorRegion(c) ==
    CASE c = "codeBlock" -> FENCE \o <<"p">> \o FENCE
      [] c = "inlineCode" -> TICK \o <<"p">> \o TICK
      [] c = "link" -> <<"[", "p", "]", "(", "p", ")">>
      [] c = "image" -> IMAGE_TAG_OPEN \o <<"p">> \o SPAN_CLOSE
      [] c = "math" -> <<"$", "p", "$">>

PriorStores(c) == {[j \in 1..n |-> PriorRegion(c)] : n \in {0, 1, MaxPriorStore}}

\* the store of category c
StoreOf(c) ==
    CASE c = "codeBlock" -> codeBlockExpressions
      [] c = "inlineCode" -> inlineCodeExpressions
      [] c = "link" -> linkExpressions
      [] c = "image" -> imageExpressions
      [] c = "math" -> mathExpressions

RegistryInit ==
    /\ category \in RegistryCategories
    /\ input \in Texts(RegistryPieces(category), MaxRegistryPieces)
    /\ storeBefore \in PriorStores(category)
    /\ codeBlockExpressions =
           IF category = "codeBlock" THEN storeBefore ELSE <<>>
    /\ inlineCodeExpressions =
           IF category = "inlineCode" THEN storeBefore ELSE <<>>
    /\ linkExpressions = IF category = "link" THEN storeBefore ELSE <<>>
    /\ imageExpressions = IF category = "image" THEN storeBefore ELSE <<>>
    /\ mathExpressions = IF category = "math" THEN storeBefore ELSE <<>>
    /\ ModuleLoaded /\ renderMermaidDiagrams = FALSE
    /\ text = input
    /\ pc = "ready"
    /\ parts = <<>>
    /\ html = <<>>
    /\ handed = <<>>
    /\ outputs = <<>>
    /\ normalized = <<>>

RegistryExtractCodeBlocks ==
    /\ pc = "ready" /\ category = "codeBlock"
    /\ text' = extractCodeBlocks(text, codeBlockExpressions)
    /\ codeBlockExpressions' = codeBlocksPushed(text, codeBlockExpressions)
    /\ pc' = "extracted"
    /\ UNCHANGED <<scheduler, fixed, html, handed, inlineCodeExpressions,
                   imageExpressions, linkExpressions, mathExpressions>>

RegistryExtractInlineCode ==
    /\ pc = "ready" /\ category = "inlineCode"
    /\ text' = extractInlineCode(text, inlineCodeExpressions)
    /\ inlineCodeExpressions' = inlineCodePushed(text, inlineCodeExpressions)
    /\ pc' = "extracted"
    /\ UNCHANGED <<scheduler, fixed, html, handed, codeBlockExpressions,
                   imageExpressions, linkExpressions, mathExpressions>>

RegistryExtractLinks ==
    /\ pc = "ready" /\ category = "link"
    /\ text' = extractLinks(text, linkExpressions)
    /\ linkExpressions' = linksPushed(text, linkExpressions)
    /\ pc' = "extracted"
    /\ UNCHANGED <<scheduler, fixed, html, handed, codeBlockExpressions,
                   inlineCodeExpressions, imageExpressions, mathExpressions>>

\* restore<Category>(text, store), on what extract returned ("extracted") or
\* on the input ("ready")
RegistryRestore(c, restored) ==
    /\ pc \in {"ready", "extracted"} /\ category = c
    /\ text' = restored
    /\ pc' = IF pc = "ready" THEN "restoredOnly" ELSE "restored"
    /\ UNCHANGED <<scheduler, fixed, html, handed, stores>>

RegistryRestoreCodeBlocks ==
    RegistryRestore("codeBlock", restoreCodeBlocks(text, codeBlockExpressions))

RegistryRestoreInlineCode ==
    RegistryRestore("inlineCode",
                    restoreInlineCode(text, inlineCodeExpressions))

RegistryRestoreLinks ==
    RegistryRestore("link", restoreLinks(text, linkExpressions))

RegistryRestoreImages ==
    RegistryRestore("image", restoreImages(text, imageExpressions))

RegistryRestoreMath ==
    RegistryRestore("math", restoreMathExpressions(text, mathExpressions))

RegistryNext ==
    \/ RegistryExtractCodeBlocks
    \/ RegistryExtractInlineCode
    \/ RegistryExtractLinks
    \/ RegistryRestoreCodeBlocks
    \/ RegistryRestoreInlineCode
    \/ RegistryRestoreLinks
    \/ RegistryRestoreImages
    \/ RegistryRestoreMath

SpecRegistry == RegistryInit /\ [][RegistryNext]_vars

\* the tokens of category c in s, left to right
TokensOf(c, s) == FindAll(TokenRegex(CategoryName(c)), s, 1)

\* the number a token of s holds
TokenIndex(s, m) == FromDigits(Cap(s, m, 2))

\* C3: for code blocks, inline code and links, and an input without
\* placeholder-like text: extract appends its matches to the store and leaves
\* what was stored before in place, the j-th token it writes holds the index
\* its match has in the store, so no two tokens hold the same index, and
\* restore of what extract returned gives the input back, also when the
\* store was not empty before.
C3_RoundTrip ==
    (category \in {"codeBlock", "inlineCode", "link"}
        /\ ~HasPlaceholderLike(input)) =>
        /\ pc = "extracted" =>
              /\ Len(StoreOf(category)) =
                     Len(storeBefore) + Len(TokensOf(category, text))
              /\ SubSeq(StoreOf(category), 1, Len(storeBefore)) = storeBefore
              /\ \A j \in 1..Len(TokensOf(category, text)) :
                     TokenIndex(text, TokensOf(category, text)[j])
                         = Len(storeBefore) + j - 1
              /\ Restore(CategoryName(category), text, StoreOf(category))
                     = input
        /\ pc = "restored" => text = input

\* a round trip of at least two regions through a store that was not empty
C3_Witness ==
    /\ pc = "restored"
    /\ category \in {"codeBlock", "inlineCode", "link"}
    /\ ~HasPlaceholderLike(input)
    /\ Len(storeBefore) > 0
    /\ Len(StoreOf(category)) >= Len(storeBefore) + 2
    /\ text = input

\* s with the tokens whose index is in the store replaced by the stored
\* region, and the others left as they are (keep) or removed
RestoredTotal(c, s, store, keep) ==
    LET R(t, m, j) ==
            IF TokenIndex(t, m) < Len(store) THEN store[TokenIndex(t, m) + 1]
            ELSE IF keep THEN Slice(t, m[1], Last(m))
            ELSE <<>>
    IN  ReplaceAll(TokenRegex(CategoryName(c)), s, R)

\* C10: restoring a text that holds tokens whose index is outside the store
\* gives the text with each such token either left unchanged or replaced by
\* the empty string, and nothing else.
C10_OutOfRangeToken ==
    pc = "restoredOnly" =>
        \/ text = RestoredTotal(category, input, storeBefore, TRUE)
        \/ text = RestoredTotal(category, input, storeBefore, FALSE)

(***************************************************************************)
(* Specification SpecCitation: processCitations(input), and then           *)
(* processCitations on what it returned.  The input is assembled from      *)
(* parts: plain chunks of text and citation markers [1](#:~:text=<body>).  *)
(***************************************************************************)
MaxCitationParts == 3

CitationNumber == <<"1">>

\* payloads whose parentheses are balanced, without a newline
BalancedPayloads ==
    {<<>>, <<"a">>, <<"a", "(", "b", ")", " ", "c">>, <<"%", "2", "8">>,
     <<" ", "a">>}

\* a payload that opens a parenthesis it does not close
UnbalancedPayloads == {<<"(", "a">>}

PlainChunks == {<<"x">>, <<" ">>, <<"\n">>, <<")">>}

CitationParts ==
    [kind : {"text"}, body : PlainChunks]
    \cup [kind : {"marker"}, body : BalancedPayloads \cup UnbalancedPayloads]

\* [<number>](#:~:text=<body>)
Marker(body) ==
    <<"[">> \o CitationNumber \o <<"]", "(">> \o TEXT_FRAGMENT_PREFIX \o body
    \o <<")">>

PartText(part) == IF part.kind = "marker" THEN Marker(part.body) ELSE part.body

Assemble(ps) == Flatten([j \in 1..Len(ps) |-> PartText(ps[j])])

CitationInit ==
    /\ parts \in UNION {[1..k -> CitationParts] : k \in 0..MaxCitationParts}
    /\ input = Assemble(parts)
    /\ text = input
    /\ pc = "ready"
    /\ category = "none"
    /\ html = <<>>
    /\ handed = <<>>
    /\ outputs = <<>>
    /\ normalized = <<>>
    /\ storeBefore = <<>>
    /\ codeBlockExpressions = <<>>
    /\ inlineCodeExpressions = <<>>
    /\ imageExpressions = <<>>
    /\ linkExpressions = <<>>
    /\ mathExpressions = <<>>
    /\ ModuleLoaded /\ renderMermaidDiagrams = FALSE

\* text = processCitations(text); normalized records what the call of
\* normalizeTextFragmentLinks inside it returned
CitationProcess ==
    /\ pc = "ready"
    /\ normalized' = normalizeTextFragmentLinks(text)
    /\ text' = processCitations(text)
    /\ outputs' = <<processCitations(text)>>
    /\ pc' = "processed"
    /\ UNCHANGED <<scheduler, category, parts, input, storeBefore, html, handed, stores>>

CitationProcessAgain ==
    /\ pc = "processed"
    /\ normalized' = normalizeTextFragmentLinks(text)
    /\ text' = processCitations(text)
    /\ outputs' = Append(outputs, processCitations(text))
    /\ pc' = "processedAgain"
    /\ UNCHANGED <<scheduler, category, parts, input, storeBefore, html, handed, stores>>

CitationNext == CitationProcess \/ CitationProcessAgain

SpecCitation == CitationInit /\ [][CitationNext]_vars

IsMarker(part) == part.kind = "marker"

Balanced(ps) ==
    \A j \in 1..Len(ps) : IsMarker(ps[j]) => ps[j].body \in BalancedPayloads

\* a marker with its payload normalized
NormalizedMarker(body) == Marker(encodeCitationPayload(body))

NormalizedPart(part) ==
    IF IsMarker(part) THEN NormalizedMarker(part.body) ELSE part.body

FailedPrefixes(s) ==
    {j \in 1..Len(s) :
        /\ Match(citationStartRegex, 1, s, j) # <<>>
        /\ ScanClosing(s, Last(Match(citationStartRegex, 1, s, j)), 1) = 0}

ClosedPrefixes(s) ==
    {j \in 1..Len(s) :
        /\ Match(citationStartRegex, 1, s, j) # <<>>
        /\ ScanClosing(s, Last(Match(citationStartRegex, 1, s, j)), 1) # 0}

\* C5: when the input holds marker prefixes and none of them has a balanced
\* closing parenthesis before the newline or the end of the text,
\* processCitations returns the input character for character.
C5_FailedPrefixUntouched ==
    (pc = "processed" /\ FailedPrefixes(input) # {}
        /\ ClosedPrefixes(input) = {}) => text = input

\* C6: processCitations(processCitations(text)) = processCitations(text).
C6_Idempotent ==
    pc = "processedAgain" => outputs[2] = outputs[1]

\* the markers of ps, normalized, in order
RECURSIVE NormalizedMarkers(_)
NormalizedMarkers(ps) ==
    IF ps = <<>> THEN <<>>
    ELSE (IF IsMarker(Head(ps)) THEN <<NormalizedMarker(Head(ps).body)>>
          ELSE <<>>) \o NormalizedMarkers(Tail(ps))

IsWhitespace(part) == ~IsMarker(part) /\ part.body \in {<<" ">>, <<"\n">>}

\* the whitespace chunks at the end of ps
RECURSIVE TrailingWhitespace(_)
TrailingWhitespace(ps) ==
    IF ps = <<>> \/ ~IsWhitespace(Last(ps)) THEN <<>>
    ELSE TrailingWhitespace(SubSeq(ps, 1, Len(ps) - 1)) \o Last(ps).body

\* C7: an input that is one run of two or more markers with balanced
\* payloads, separated by nothing but whitespace, comes out as the normalized
\* markers in order joined by the full-width bar, followed by the whitespace
\* that trailed the run.
C7_RunsAreJoined ==
    (pc = "processed" /\ Balanced(parts)
        /\ Len(NormalizedMarkers(parts)) >= 2
        /\ IsMarker(parts[1])
        /\ \A j \in 1..Len(parts) : IsMarker(parts[j]) \/ IsWhitespace(parts[j]))
    => text = Join(NormalizedMarkers(parts), <<"FWBAR">>)
              \o TrailingWhitespace(parts)

(***************************************************************************)
(* Specification SpecBold: processBoldFormatting(input), and then          *)
(* processBoldFormatting on what it returned.                              *)
(***************************************************************************)
MaxBoldPieces == 4

BoldPieces == {<<"*", "*">>, <<"a">>, <<" ">>, <<"\n">>, <<":">>, <<".">>}

BoldInputs == Texts(BoldPieces, MaxBoldPieces)

BoldInit ==
    /\ input \in BoldInputs
    /\ text = input
    /\ pc = "ready"
    /\ category = "none"
    /\ parts = <<>>
    /\ html = <<>>
    /\ handed = <<>>
    /\ outputs = <<>>
    /\ normalized = <<>>
    /\ storeBefore = <<>>
    /\ codeBlockExpressions = <<>>
    /\ inlineCodeExpressions = <<>>
    /\ imageExpressions = <<>>
    /\ linkExpressions = <<>>
    /\ mathExpressions = <<>>
    /\ ModuleLoaded /\ renderMermaidDiagrams = FALSE

\* text = processBoldFormatting(text)
BoldFormat ==
    /\ pc = "ready"
    /\ text' = processBoldFormatting(text)
    /\ outputs' = <<processBoldFormatting(text)>>
    /\ pc' = "formatted"
    /\ UNCHANGED <<scheduler, category, parts, input, normalized, storeBefore, html,
                   handed, stores>>

BoldFormatAgain ==
    /\ pc = "formatted"
    /\ text' = processBoldFormatting(text)
    /\ outputs' = Append(outputs, processBoldFormatting(text))
    /\ pc' = "formattedAgain"
    /\ UNCHANGED <<scheduler, category, parts, input, normalized, storeBefore, html,
                   handed, stores>>

BoldNext == BoldFormat \/ BoldFormatAgain

SpecBold == BoldInit /\ [][BoldNext]_vars

\* the sentinels the second and third replace() write: @@...@@# and #%...%#@
HasSentinel(s) ==
    \/ Contains(s, <<"@", "@">>) /\ Contains(s, <<"@", "@", "#">>)
    \/ Contains(s, <<"#", "%">>) /\ Contains(s, <<"%", "#", "@">>)

\* C8: processBoldFormatting(processBoldFormatting(text)) equals
\* processBoldFormatting(text), and what processBoldFormatting returns holds
\* no sentinel.
C8_BoldIdempotent ==
    /\ pc = "formattedAgain" => outputs[2] = outputs[1]
    /\ pc = "formatted" => ~HasSentinel(outputs[1])

(***************************************************************************)
(* Specification SpecThink: processThinkTags(input).  outputs records the  *)
(* text after the first replace() and the text the function returns.       *)
(***************************************************************************)
MaxThinkPieces == 4

ThinkPieces ==
    {THINK_OPEN, THINK_CLOSE, <<"a">>, <<"b">>, <<" ">>, <<"\n">>}

ThinkInputs == Texts(ThinkPieces, MaxThinkPieces)

ThinkInit ==
    /\ input \in ThinkInputs
    /\ text = input
    /\ pc = "ready"
    /\ category = "none"
    /\ parts = <<>>
    /\ html = <<>>
    /\ handed = <<>>
    /\ outputs = <<>>
    /\ normalized = <<>>
    /\ storeBefore = <<>>
    /\ codeBlockExpressions = <<>>
    /\ inlineCodeExpressions = <<>>
    /\ imageExpressions = <<>>
    /\ linkExpressions = <<>>
    /\ mathExpressions = <<>>
    /\ ModuleLoaded /\ renderMermaidDiagrams = FALSE

\* text = processThinkTags(text)
ThinkProcess ==
    /\ pc = "ready"
    /\ text' = processThinkTags(text)
    /\ outputs' = <<ThinkClosedPass(text), processThinkTags(text)>>
    /\ pc' = "processed"
    /\ UNCHANGED <<scheduler, category, parts, input, normalized, storeBefore, html,
                   handed, stores>>

ThinkNext == ThinkProcess

SpecThink == ThinkInit /\ [][ThinkNext]_vars

\* the positions of s where an opening tag starts
OpeningTags(s) == {i \in 1..Len(s) : HasAt(s, i, THINK_OPEN)}

\* an opening tag at i has a closing tag after it
ClosedAfter(s, i) ==
    \E j \in (i + Len(THINK_OPEN))..Len(s) : HasAt(s, j, THINK_CLOSE)

\* C11: the second phase of processThinkTags changes the text the first
\* phase produced only at an opening tag that has no closing tag after it
\* (when every opening tag left by the first phase has a closing tag after
\* it, the function returns what the first phase produced), and the text
\* processThinkTags returns holds no <think> tag.
C11_ThinkPhases ==
    pc = "processed" =>
        /\ (\A i \in OpeningTags(outputs[1]) : ClosedAfter(outputs[1], i))
               => outputs[2] = outputs[1]
        /\ OpeningTags(outputs[2]) = {}

(***************************************************************************)
(* Specification SpecScheduler: calls of renderMarkdown, runs of the       *)
(* callback the host holds, and the page defining or removing              *)
(* window.renderMermaidDiagrams, in any order.  The script is single       *)
(* threaded: a call or a callback runs to its end before the next starts.  *)
(***************************************************************************)
MaxRequests == 4

SampleDiagram ==
    <<"<", "d", "i", "v", " ">> \o CLASS_EQ \o <<"\"">> \o MERMAID
    \o <<"\"", ">", "g", "<", "/", "d", "i", "v", ">">>

SampleDiagramQuoted ==
    <<"<", "d", "i", "v", " ">> \o CLASS_EQ \o <<"'">> \o MERMAID
    \o <<"'", ">", "g", "<", "/", "d", "i", "v", ">">>

\* texts marked.parse is given: without a diagram, with one, and one where
\* the class is another one
RenderTexts ==
    {<<"x">>, SampleDiagram, SampleDiagramQuoted, CLASS_EQ \o MERMAID}

SchedulerInit ==
    /\ pc = "idle"
    /\ input = <<>>
    /\ text = <<>>
    /\ category = "none"
    /\ parts = <<>>
    /\ html = <<>>
    /\ handed = <<>>
    /\ outputs = <<>>
    /\ normalized = <<>>
    /\ storeBefore = <<>>
    /\ codeBlockExpressions = <<>>
    /\ inlineCodeExpressions = <<>>
    /\ imageExpressions = <<>>
    /\ linkExpressions = <<>>
    /\ mathExpressions = <<>>
    /\ ModuleLoaded
    /\ renderMermaidDiagrams \in BOOLEAN

\* html = renderMarkdown(t)
SchedulerRenderMarkdown ==
    /\ pc = "idle"
    /\ \E t \in RenderTexts :
          /\ MermaidTest(markedParse(t)) => requests < MaxRequests
          /\ text' = t
          /\ handed' = t
          /\ html' = markedParse(t)
          /\ renderMarkdownEffects(markedParse(t))
    /\ UNCHANGED <<pc, category, parts, input, outputs, normalized,
                   storeBefore, stores>>

\* the host starts run: mermaidRenderScheduled = false
RunClearsFlag ==
    /\ pc = "idle"
    /\ idleCallbacks > 0
    /\ idleCallbacks' = idleCallbacks - 1
    /\ mermaidRenderScheduled' = FALSE
    /\ pc' = "run"
    /\ UNCHANGED <<category, parts, input, text, html, handed, outputs,
                   normalized, storeBefore, stores, markedConfigured,
                   renderMermaidDiagrams, requests, attempts, invocations,
                   served>>

\* run goes on: if (window.renderMermaidDiagrams) window.renderMermaidDiagrams()
RunCallsRenderer ==
    /\ pc = "run"
    /\ attempts' = attempts + 1
    /\ invocations' =
           IF renderMermaidDiagrams THEN invocations + 1 ELSE invocations
    /\ served' = requests
    /\ pc' = "idle"
    /\ UNCHANGED <<category, parts, input, text, html, handed, outputs,
                   normalized, storeBefore, stores, markedConfigured,
                   mermaidRenderScheduled, idleCallbacks,
                   renderMermaidDiagrams, requests>>

\* the page defines window.renderMermaidDiagrams, or removes it
PageSetsRenderer ==
    /\ pc = "idle"
    /\ renderMermaidDiagrams' = ~renderMermaidDiagrams
    /\ UNCHANGED <<pc, category, parts, input, text, html, handed, outputs,
                   normalized, storeBefore, stores, markedConfigured,
                   mermaidRenderScheduled, idleCallbacks, requests, attempts,
                   invocations, served>>

SchedulerNext ==
    \/ SchedulerRenderMarkdown
    \/ RunClearsFlag
    \/ RunCallsRenderer
    \/ PageSetsRenderer

\* requestIdleCallback(run, {timeout: 300}) and setTimeout(run, 0): the host
\* runs a callback it holds, and a callback that started runs to its end
SpecScheduler ==
    /\ SchedulerInit
    /\ [][SchedulerNext]_vars
    /\ WF_vars(RunClearsFlag)
    /\ WF_vars(RunCallsRenderer)

\* C12: at most one callback is pending, and one is pending exactly when the
\* flag is set; a request made while one is pending hands nothing to the
\* host; the flag is clear when the callback reaches the renderer, present or
\* absent; the renderer has been invoked at most as often as a request was
\* made; and every request is followed by a run of the callback.
C12_OneCallbackPending ==
    /\ [](/\ idleCallbacks <= 1
          /\ mermaidRenderScheduled <=> idleCallbacks = 1
          /\ pc = "run" => ~mermaidRenderScheduled
          /\ invocations <= attempts
          /\ invocations <= requests)
    /\ [][/\ (requests' > requests /\ idleCallbacks = 1)
                 => idleCallbacks' = idleCallbacks
          /\ attempts' > attempts => ~mermaidRenderScheduled']_vars
    /\ \A n \in 1..MaxRequests : (requests >= n) ~> (served >= n)

\* two requests were made while one callback was pending, the callback ran
\* and invoked the renderer once, and a later request has a callback pending
C12_Witness ==
    /\ requests >= 3
    /\ attempts = 1
    /\ invocations = 1
    /\ served = 2
    /\ idleCallbacks = 1
    /\ mermaidRenderScheduled

====
